---------------------------- MODULE Spec2Model ----------------------------
(***************************************************************************)
(* A model of DialogRasaMigrator.py, the Dialogflow to Rasa 3 migrator.    *)
(*                                                                         *)
(* Text is modelled as Python models it: a string is a sequence of         *)
(* characters, each character a one-character TLA+ string.  The two        *)
(* typographic double quotes, which format_text rewrites, are the          *)
(* characters "<ldq>" and "<rdq>".  Files are records [exists, data].      *)
(* Indices returned by Find are Python's (0-based, -1 when absent).        *)
(***************************************************************************)
EXTENDS Integers, Sequences, FiniteSets, TLC

(***************************************************************************)
(* Python string built-ins, as the script uses them.                       *)
(***************************************************************************)

\* s[:k] for k >= 0
Take(s, k) ==
    SubSeq(s, 1, IF k < Len(s) THEN k ELSE Len(s))

\* s[k:] for k >= 0
Drop(s, k) ==
    SubSeq(s, k + 1, Len(s))

\* s[:k], any integer k: a negative k counts from the end of s
SliceTo(s, k) ==
    IF k >= 0 THEN Take(s, k)
    ELSE IF Len(s) + k > 0 THEN Take(s, Len(s) + k) ELSE <<>>

\* s.startswith(p)
StartsWith(s, p) ==
    Len(p) <= Len(s) /\ SubSeq(s, 1, Len(p)) = p

\* s.endswith(p)
EndsWith(s, p) ==
    Len(p) <= Len(s) /\ SubSeq(s, Len(s) - Len(p) + 1, Len(s)) = p

\* the 0-based positions at which p occurs in s
Occurrences(s, p) ==
    {k \in 0..(Len(s) - Len(p)) : SubSeq(s, k + 1, k + Len(p)) = p}

\* s.find(p): the first position of p in s, -1 when p does not occur
Find(s, p) ==
    LET occ == Occurrences(s, p)
    IN  IF occ = {} THEN -1 ELSE CHOOSE k \in occ : \A m \in occ : k <= m

\* p in s
Contains(s, p) ==
    Occurrences(s, p) # {}

\* s.replace(old, new, 1), old not empty
ReplaceFirst(s, old, new) ==
    LET k == Find(s, old)
    IN  IF k = -1 THEN s ELSE Take(s, k) \o new \o Drop(s, k + Len(old))

\* s.replace(old, new), old not empty: every occurrence, left to right,
\* none overlapping and none found in replaced text
RECURSIVE Replace(_, _, _)
Replace(s, old, new) ==
    LET k == Find(s, old)
    IN  IF k = -1 THEN s
        ELSE Take(s, k) \o new \o Replace(Drop(s, k + Len(old)), old, new)

\* s.split(sep, 1), sep one character
SplitOnce(s, sep) ==
    LET k == Find(s, <<sep>>)
    IN  IF k = -1 THEN <<s>> ELSE <<Take(s, k), Drop(s, k + 1)>>

\* sep.join(parts)
RECURSIVE Join(_, _)
Join(parts, sep) ==
    IF parts = <<>> THEN <<>>
    ELSE IF Len(parts) = 1 THEN parts[1]
    ELSE parts[1] \o sep \o Join(Tail(parts), sep)

\* ''.join(parts)
Concat(parts) ==
    Join(parts, <<>>)

(***************************************************************************)
(* Global configuration and the literals of the script.                    *)
(***************************************************************************)

DEFAULT_GROUP == <<"O","T","H","E","R">>

\* the agent's language, which set_language_setting reads from agent.json
LANGUAGE_SETTING == <<"e","n">>

\* another language an export may hold messages and training phrases in
OtherLanguage == <<"e","s">>

S_json == <<".","j","s","o","n">>
S_usersays == <<"_","u","s","e","r","s","a","y","s","_">>
S_entries == <<"_","e","n","t","r","i","e","s","_">>
S_sys == <<"s","y","s",".">>
S_utter == <<"u","t","t","e","r","_">>
S_version == <<"v","e","r","s","i","o","n",":"," ","\"","3",".","1","\"","\n">>
NluAnchor == <<"n","l","u",":","\n">>
IntentsAnchor == <<"i","n","t","e","n","t","s",":","\n">>
RulesAnchor == <<"r","u","l","e","s",":","\n">>
S_entities == <<"e","n","t","i","t","i","e","s",":","\n">>
S_responses == <<"r","e","s","p","o","n","s","e","s",":","\n">>
S_item == <<"-"," ">>
S_intent == <<"-"," ","i","n","t","e","n","t",":"," ">>
S_examples == <<"\n"," "," ","e","x","a","m","p","l","e","s",":"," ","|","\n">>
S_example == <<" "," "," "," ","-"," ">>
S_synonym == <<"-"," ","s","y","n","o","n","y","m",":"," ">>
S_text == <<" "," ","-"," ","t","e","x","t",":"," ","'">>
S_endtext == <<"'","\n">>
S_image == <<" "," "," "," ","i","m","a","g","e",":"," ","\"">>
S_endimage == <<"\"","\n">>
S_href == <<"<","b","r",">","<","a"," ","h","r","e","f","=","\"">>
S_hrefmid == <<"\"",">">>
S_hrefend == <<"<","/","a",">">>
S_rule == <<"\n","-"," ","r","u","l","e",":"," ","R","e","s","p","o","n","d"," ","t","o"," ">>
S_steps == <<"\n"," "," ","s","t","e","p","s",":","\n">>
S_stepintent == <<" "," ","-"," ","i","n","t","e","n","t",":"," ">>
S_stepaction == <<" "," ","-"," ","a","c","t","i","o","n",":"," ">>

\* str(n) for the step numbers the runs reach
Digits(n) ==
    IF n < 10
    THEN <<<<"0">>, <<"1">>, <<"2">>, <<"3">>, <<"4">>,
           <<"5">>, <<"6">>, <<"7">>, <<"8">>, <<"9">>>>[n + 1]
    ELSE <<"1">> \o <<<<"0">>, <<"1">>, <<"2">>, <<"3">>, <<"4">>,
                      <<"5">>, <<"6">>, <<"7">>, <<"8">>, <<"9">>>>[n - 9]


(***************************************************************************)
(* The state: the directories and documents the script reads and writes,   *)
(* its globals, and the locals of the loop that is running.                *)
(***************************************************************************)
VARIABLES
    pc,                      \* the function main() is about to call
    stdin,                   \* the answer the user gives to ignore_sys()
    groups,                  \* the list extract_groups returned
    intents_dir,             \* dialogflow/intents: the files, in os.listdir order
    entities_dir,            \* dialogflow/entities: the files, in os.listdir order
    synonyms_yml,            \* rasa/data/synonyms.yml
    nlu_yml,                 \* rasa/data/nlu.yml, the corpus document
    domain_yml,              \* rasa/domain.yml
    rules_yml,               \* rasa/data/rules.yml
    IGNORE_SYSTEM_ENTITIES,
    ENTITY_LIST,
    INTENT_LIST,
    RULES_CONTENT,
    new_nlu_data,            \* generate_nlu's accumulator
    responses_content,       \* get_responses' accumulator
    file_idx,                \* the file of intents_dir the running loop is at
    msg_idx,                 \* the message of that file get_responses is at
    intent_name,             \* the loop's local intent_name
    response_name,           \* get_responses' local response_name
    after_text,              \* get_responses' local after_text
    steps_iter               \* get_responses' local steps_iter

vars ==
    <<pc, stdin, groups, intents_dir, entities_dir, synonyms_yml, nlu_yml, domain_yml,
      rules_yml, IGNORE_SYSTEM_ENTITIES, ENTITY_LIST, INTENT_LIST, RULES_CONTENT,
      new_nlu_data, responses_content, file_idx, msg_idx, intent_name,
      response_name, after_text, steps_iter>>

(***************************************************************************)
(* The inputs the runs are drawn from.                                     *)
(***************************************************************************)

\* the most intents of an export whose names and payload order vary
MaxFiles == 4

\* the most messages of the response whose messages vary
MaxMsgs == 3

Nm_gx == <<"g","-","x">>
Nm_gxy == <<"g","-","x","-","y">>
Nm_ggx == <<"g","-","g","-","x">>
Nm_x == <<"x">>
Nm_y == <<"y">>

Nm_ghx == <<"g","h","-","x">>
Nm_ghy == <<"g","h","-","y">>

\* raw intent identifiers: with a shared prefix, with the prefix repeated,
\* one a prefix of another, and without a separator
NamePool ==
    {Nm_gx, Nm_gxy, Nm_ggx, Nm_x, Nm_y}

\* raw intent identifiers of two prefixes, one a prefix of the other
NestedPool ==
    {Nm_gx, Nm_gxy, Nm_ghx, Nm_ghy}

Message(type, lang, speech, has_buttons, buttons, has_images, images) ==
    [type |-> type, lang |-> lang, speech |-> speech,
     has_buttons |-> has_buttons, buttons |-> buttons,
     has_images |-> has_images, images |-> images]

Button(text, value) ==
    [text |-> text, value |-> value]

\* a text message of the agent's language, with both quote glyphs and a newline
M_text ==
    Message("0", LANGUAGE_SETTING,
            <<<<"<ldq>","W","<rdq>">>, <<"A","\n","B">>>>, FALSE, <<>>, FALSE, <<>>)

\* a text message of another language
M_text_es ==
    Message("0", OtherLanguage, <<<<"H">>>>, FALSE, <<>>, FALSE, <<>>)

M_buttons ==
    Message("4", LANGUAGE_SETTING, <<>>, TRUE,
            <<Button(<<"V">>, <<"h">>)>>, FALSE, <<>>)

M_images ==
    Message("4", LANGUAGE_SETTING, <<>>, FALSE, <<>>, TRUE, <<<<"p">>>>)

\* one rich payload with buttons and images
M_both ==
    Message("4", LANGUAGE_SETTING, <<>>, TRUE,
            <<Button(<<"V">>, <<"h">>), Button(<<"<ldq>","U">>, <<"k">>)>>,
            TRUE, <<<<"q">>>>)

\* a message of a type the script passes over
M_other ==
    Message("2", LANGUAGE_SETTING, <<>>, FALSE, <<>>, FALSE, <<>>)

MsgPool ==
    {M_text, M_text_es, M_buttons, M_images, M_both, M_other}

\* the two payload orders of an intent with one text and one button list
PayloadPool ==
    {<<M_text, M_buttons>>, <<M_buttons, M_text>>}

\* <name>.json: the intent's response record (its first response's messages)
ResponseFile(raw, messages) ==
    [fname |-> raw \o S_json, messages |-> messages, examples |-> <<>>]

\* <name>_usersays_<lang>.json: the intent's training phrases, each a list
\* of text parts
UsersaysFile(raw, lang, examples) ==
    [fname |-> raw \o S_usersays \o lang \o S_json, messages |-> <<>>,
     examples |-> examples]

IntentFiles(raw, messages) ==
    <<ResponseFile(raw, messages),
      UsersaysFile(raw, LANGUAGE_SETTING, <<<<<<"h">>, <<"i">>>>>>)>>

\* the listing of an export with the intents names[1..n], payloads[k] the
\* messages of names[k]
RECURSIVE Listing(_, _)
Listing(names, payloads) ==
    IF names = <<>> THEN <<>>
    ELSE IntentFiles(names[1], payloads[1])
             \o Listing(Tail(names), Tail(payloads))

Injective(f) ==
    \A a, b \in DOMAIN f : f[a] = f[b] => a = b

\* the exports of up to MaxFiles intents of NamePool, in any listing order
NamedExports ==
    UNION {{Listing(names, payloads) :
               names \in {f \in [1..n -> NamePool] : Injective(f)},
               payloads \in [1..n -> PayloadPool]} : n \in 0..MaxFiles}

\* the exports of up to MaxFiles intents of NestedPool, in any listing order
NestedExports ==
    UNION {{Listing(names, payloads) :
               names \in {f \in [1..n -> NestedPool] : Injective(f)},
               payloads \in [1..n -> {<<M_text>>}]} : n \in 0..MaxFiles}

\* the exports of three intents of one group in which the messages of the
\* second vary
MessageExports ==
    {Listing(<<Nm_gxy, Nm_gx, Nm_y>>, <<<<M_text>>, messages, <<M_text>>>>) :
        messages \in UNION {[1..n -> MsgPool] : n \in 0..MaxMsgs}}

\* an existing document of a Rasa project; open() for writing succeeds
Doc(data) ==
    [exists |-> TRUE, data |-> data, writable |-> TRUE]

NoDoc ==
    [exists |-> FALSE, data |-> <<>>, writable |-> TRUE]

\* the document as a file open() for writing fails on (an OSError): it can
\* be read, it cannot be written
ReadOnly(doc) ==
    [doc EXCEPT !.writable = FALSE]

\* the file after write(data): as it was when open() fails
Written(file, data) ==
    IF file.writable THEN Doc(data) ELSE file

DefaultDoc(anchor) ==
    Doc(<<"#","\n">> \o anchor \o <<"o","\n">>)

\* the existing documents: none, one without the anchor, one with it, one
\* with it twice, and one with a cut anchor before the anchor
DocPool(anchor) ==
    {NoDoc,
     Doc(<<"#","\n">>),
     DefaultDoc(anchor),
     Doc(anchor \o <<"o","\n">> \o anchor \o <<"o","\n">>),
     Doc(<<"#">> \o Take(anchor, Len(anchor) - 1) \o anchor \o <<"o">>)}

EntityFile(fname, entries) ==
    [fname |-> fname, entries |-> entries]

Entry(value, synonyms) ==
    [value |-> value, synonyms |-> synonyms]

\* <entity>_entries_<lang>.json
E_city ==
    EntityFile(<<"c">> \o S_entries \o LANGUAGE_SETTING \o S_json,
               <<Entry(<<"c">>, <<<<"c">>, <<"d">>>>), Entry(<<"e">>, <<<<"e">>>>)>>)

\* a system entity
E_sys ==
    EntityFile(S_sys \o <<"n">> \o S_entries \o LANGUAGE_SETTING \o S_json,
               <<Entry(<<"n">>, <<<<"n">>>>)>>)

\* the entity's declaration, which holds no entries
E_decl ==
    EntityFile(<<"c">> \o S_json, <<>>)

EntityDirs ==
    {<<>>, <<E_decl, E_city>>, <<E_sys, E_city>>}

TypeOK ==
    /\ pc \in {"setup", "synonyms", "nlu", "domain", "rules", "done", "exit"}
    /\ stdin \in [ignore_sys : BOOLEAN]
    /\ after_text \in BOOLEAN
    /\ steps_iter \in Nat

(***************************************************************************)
(* Auxiliary functions.                                                    *)
(***************************************************************************)

\* usersays_pattern.search(filename): '_usersays_', then any text, then
\* '.json' at the end (no filename holds a newline)
is_usersays(filename) ==
    /\ EndsWith(filename, S_json)
    /\ \E k \in Occurrences(filename, S_usersays) :
          k + Len(S_usersays) <= Len(filename) - Len(S_json)

\* prefix_count[prefix] = prefix_count.get(prefix, 0) + 1, the dict a
\* sequence of [prefix, count] in insertion order
Increment(prefix_count, prefix) ==
    IF \E k \in DOMAIN prefix_count : prefix_count[k].prefix = prefix
    THEN [k \in DOMAIN prefix_count |->
             IF prefix_count[k].prefix = prefix
             THEN [prefix |-> prefix, count |-> prefix_count[k].count + 1]
             ELSE prefix_count[k]]
    ELSE Append(prefix_count, [prefix |-> prefix, count |-> 1])

\* the tallies after the first n filenames
RECURSIVE TallyPrefixes(_, _)
TallyPrefixes(filenames, n) ==
    IF n = 0 THEN [prefix_count |-> <<>>, no_prefix_count |-> 0]
    ELSE LET before == TallyPrefixes(filenames, n - 1)
             filename == filenames[n]
             parts == SplitOnce(filename, "-")
         IN  IF ~is_usersays(filename) THEN before
             ELSE IF Len(parts) > 1
                  THEN [before EXCEPT
                           !.prefix_count = Increment(@, parts[1])]
                  ELSE [before EXCEPT !.no_prefix_count = @ + 1]

\* a variant of IsGroupTally: a single filename makes a group
IsSingleTally(t) ==
    t.count >= 1

IsGroupTally(t) ==
    t.count >= 2

IsLowTally(t) ==
    t.count < 2

extract_groups(filenames) ==
    LET tally == TallyPrefixes(filenames, Len(filenames))
        counted == SelectSeq(tally.prefix_count, IsGroupTally)
        prefixes == [k \in DOMAIN counted |-> counted[k].prefix]
        no_prefix_count ==
            tally.no_prefix_count
                + Len(SelectSeq(tally.prefix_count, IsLowTally))
        listed ==
            IF no_prefix_count >= 2 THEN Append(prefixes, DEFAULT_GROUP)
            ELSE prefixes
    IN  IF Len(listed) = 1 /\ no_prefix_count = 0 THEN <<>> ELSE listed

\* whether the response record holds no text: no message of type '0' with
\* a speech
IsEmptyFile(file) ==
    ~\E k \in DOMAIN file.messages :
        file.messages[k].type = "0" /\ file.messages[k].speech # <<>>

remove_substring(s, substr) ==
    IF EndsWith(s, substr) THEN Take(s, Len(s) - Len(substr)) ELSE s

\* a variant of LongestFirst: the first match, whatever its length
FirstMatched(matched_groups) ==
    matched_groups[1]

\* max(matched_groups, key=len): the first of the longest
LongestFirst(matched_groups) ==
    LET k == CHOOSE a \in DOMAIN matched_groups :
                 /\ \A b \in DOMAIN matched_groups :
                        Len(matched_groups[b]) <= Len(matched_groups[a])
                 /\ \A b \in 1..(a - 1) :
                        Len(matched_groups[b]) < Len(matched_groups[a])
    IN  matched_groups[k]

InList(list, x) ==
    \E k \in DOMAIN list : list[k] = x

\* a variant of add_group_to_intent_name: the default group is prepended
\* whether or not it is in INTENT_LIST
prepend_default_group(name) ==
    IF \E k \in DOMAIN INTENT_LIST : StartsWith(name, INTENT_LIST[k])
    THEN ReplaceFirst(name,
             LongestFirst(SelectSeq(INTENT_LIST,
                                    LAMBDA group : StartsWith(name, group)))
                 \o <<"-">>,
             LongestFirst(SelectSeq(INTENT_LIST,
                                    LAMBDA group : StartsWith(name, group)))
                 \o <<"/">>)
    ELSE DEFAULT_GROUP \o <<"/">> \o name

add_group_to_intent_name(name) ==
    LET matched_groups ==
            SelectSeq(INTENT_LIST, LAMBDA group : StartsWith(name, group))
    IN  IF matched_groups # <<>>
        THEN LET intent_group == LongestFirst(matched_groups)
             IN  ReplaceFirst(name, intent_group \o <<"-">>,
                              intent_group \o <<"/">>)
        ELSE IF InList(INTENT_LIST, DEFAULT_GROUP)
             THEN DEFAULT_GROUP \o <<"/">> \o name
             ELSE name

format_text(text) ==
    LET quotes == Replace(text, <<"'">>, <<"'">>)
        plain == Replace(Replace(quotes, <<"<ldq>">>, <<"\"">>),
                         <<"<rdq>">>, <<"\"">>)
    IN  Replace(plain, <<"\n">>, <<" ">>)

\* the file after replace_in_file(filename, old_text, new_text); a file that
\* is not there is reported and left alone
replace_in_file(file, old_text, new_text) ==
    IF ~file.exists \/ ~file.writable THEN file
    ELSE [file EXCEPT !.data = Replace(@, old_text, new_text)]

\* name.startswith(tuple(list))
StartsWithAny(name, list) ==
    \E k \in DOMAIN list : StartsWith(name, list[k])

\* a variant of Register: the name is appended unless it is an entry
RegisterUnlessListed(name) ==
    IF ~InList(INTENT_LIST, name) THEN Append(INTENT_LIST, name)
    ELSE INTENT_LIST

\* INTENT_LIST after the registration of name
Register(name) ==
    IF ~StartsWithAny(name, INTENT_LIST) THEN Append(INTENT_LIST, name)
    ELSE INTENT_LIST

\* intent_name.split('/', 1)[-1]
ShortName(name) ==
    LET parts == SplitOnce(name, "/")
    IN  parts[Len(parts)]

\* the name rename_intent returns, INTENT_LIST and nlu.yml after it
rename_intent(name) ==
    LET old_name == name
        short == ShortName(name)
    IN  [intent_name |-> short,
         INTENT_LIST |-> Register(short),
         nlu_yml |-> replace_in_file(nlu_yml, old_name, short)]

rename_response(rname, iname, rc) ==
    LET old_resp == rname
        new_resp == S_utter \o iname
    IN  [response_name |-> new_resp,
         responses_content |-> Replace(rc, old_resp, new_resp)]

create_new_rule(rules, rname, iname) ==
    rules \o S_rule \o iname \o S_steps
          \o S_stepintent \o iname \o <<"\n">>
          \o S_stepaction \o rname \o <<"\n">>

\* the markup of the buttons: one link per button
RECURSIVE ButtonMarkup(_)
ButtonMarkup(buttons) ==
    IF buttons = <<>> THEN <<>>
    ELSE S_href \o buttons[1].value \o S_hrefmid
             \o format_text(buttons[1].text) \o S_hrefend
             \o ButtonMarkup(Tail(buttons))

\* the locals and globals of get_responses' loop body, which
\* process_buttons reads and returns
Locals(rc, at, si, iname, rname) ==
    [responses_content |-> rc, after_text |-> at, steps_iter |-> si,
     intent_name |-> iname, response_name |-> rname,
     RULES_CONTENT |-> RULES_CONTENT, INTENT_LIST |-> INTENT_LIST,
     nlu_yml |-> nlu_yml]

\* process_buttons at the first turn of the intent that starts without a
\* text: the intent and the response are renamed and the rule is created
Renamed(renamed, response, si) ==
    [responses_content |-> response.responses_content,
     after_text |-> FALSE, steps_iter |-> si,
     intent_name |-> renamed.intent_name,
     response_name |-> response.response_name,
     RULES_CONTENT |->
         create_new_rule(RULES_CONTENT, response.response_name,
                         renamed.intent_name),
     INTENT_LIST |-> renamed.INTENT_LIST,
     nlu_yml |-> renamed.nlu_yml]

RenameResponse(renamed, rc, si, rname) ==
    Renamed(renamed, rename_response(rname, renamed.intent_name, rc), si)

FirstTurn(rc, si, iname, rname) ==
    RenameResponse(rename_intent(iname), rc, si, rname)

\* a variant of StepName: the step is named before it is counted
StepNameBeforeCount(rname, si) ==
    rname \o <<"_">> \o Digits(si - 1)

\* the name of the sub-block of step si
StepName(rname, si) ==
    rname \o <<"_">> \o Digits(si)

\* process_buttons where a turn starts: the step is counted, added to the
\* rule, and its response is started
NewTurn(st) ==
    [st EXCEPT
        !.steps_iter = @ + 1,
        !.RULES_CONTENT =
            @ \o S_stepaction
              \o StepName(st.response_name, st.steps_iter + 1) \o <<"\n">>,
        !.responses_content =
            @ \o <<" ", " ">>
              \o StepName(st.response_name, st.steps_iter + 1)
              \o <<":", "\n">> \o S_text]

\* process_buttons' end: the links are written and the text is closed
WriteButtons(payload, st) ==
    [st EXCEPT
        !.responses_content = @ \o ButtonMarkup(payload.buttons) \o S_endtext,
        !.after_text = TRUE]

\* a variant of process_buttons: the buttons start a turn whether or not a
\* text precedes them
buttons_start_turn(payload, rc, at, si, iname, rname) ==
    WriteButtons(payload,
        NewTurn(IF si = 0 THEN FirstTurn(rc, si, iname, rname)
                ELSE Locals(rc, at, si, iname, rname)))

\* what process_buttons returns, and the globals after it
process_buttons(payload, rc, at, si, iname, rname) ==
    WriteButtons(payload,
        IF at THEN Locals(SliceTo(rc, -2), at, si, iname, rname)
        ELSE NewTurn(IF si = 0 THEN FirstTurn(rc, si, iname, rname)
                     ELSE Locals(rc, at, si, iname, rname)))

RECURSIVE ImageSteps(_)
ImageSteps(images) ==
    IF images = <<>> THEN <<>>
    ELSE S_image \o images[1] \o S_endimage \o ImageSteps(Tail(images))

\* a variant of process_images: the flag is left as it was
images_keep_turn(payload, rc, at) ==
    [responses_content |-> rc \o ImageSteps(payload.images),
     after_text |-> at]

process_images(payload, rc, at) ==
    [responses_content |-> rc \o ImageSteps(payload.images),
     after_text |-> FALSE]

\* the text steps of one message: one per speech
RECURSIVE TextSteps(_)
TextSteps(speech) ==
    IF speech = <<>> THEN <<>>
    ELSE S_text \o format_text(speech[1]) \o S_endtext
             \o TextSteps(Tail(speech))

(***************************************************************************)
(* The run: main() calls initialize_migration_setup, generate_synonyms,    *)
(* generate_nlu, generate_domain and generate_rules.  The loops over the   *)
(* intent files take one step per file they process (a file they skip is   *)
(* part of the next step), and get_responses one step per message.         *)
(***************************************************************************)

Filenames(dir) ==
    [k \in DOMAIN dir |-> dir[k].fname]

\* the next of the positions wanted of intents_dir after position k
\* (0: none is left)
NextFile(k, wanted) ==
    LET later == {m \in wanted : m > k}
    IN  IF later = {} THEN 0 ELSE CHOOSE m \in later : \A n \in later : m <= n

\* a file with the agent's language's examples of an intent
IsNluFile(file) ==
    EndsWith(file.fname, S_usersays \o LANGUAGE_SETTING \o S_json)

IsResponseFile(file) ==
    ~is_usersays(file.fname)

\* the positions of intents_dir generate_nlu processes
NluFiles ==
    {m \in DOMAIN intents_dir : IsNluFile(intents_dir[m])}

\* the positions of intents_dir get_responses processes
ResponseFiles ==
    {m \in DOMAIN intents_dir : IsResponseFile(intents_dir[m])}

\* the response files ok_empty_files finds without a text, in listing order
EmptyFiles ==
    SelectSeq(intents_dir,
              LAMBDA file : IsResponseFile(file) /\ IsEmptyFile(file))

\* the files handle_empty_file removes for the file named fname
RemovedWith(fname) ==
    {fname, Replace(fname, S_json, S_usersays \o LANGUAGE_SETTING \o S_json)}

\* initialize_migration_setup: the groups seed INTENT_LIST; the user agrees
\* to delete the first n empty files, and the run exits at the first the
\* user keeps; the answer to ignore_sys
InitializeMigrationSetup ==
    /\ pc = "setup"
    /\ groups' = extract_groups(Filenames(intents_dir))
    /\ INTENT_LIST' = groups'
    /\ \E n \in 0..Len(EmptyFiles) :
          LET removed == UNION {RemovedWith(EmptyFiles[k].fname) : k \in 1..n}
          IN  /\ intents_dir' =
                    SelectSeq(intents_dir, LAMBDA file : file.fname \notin removed)
              /\ IF n < Len(EmptyFiles)
                 THEN /\ pc' = "exit"
                      /\ UNCHANGED IGNORE_SYSTEM_ENTITIES
                 ELSE /\ pc' = "synonyms"
                      /\ IGNORE_SYSTEM_ENTITIES' = stdin.ignore_sys
    /\ UNCHANGED <<stdin, entities_dir, synonyms_yml, nlu_yml, domain_yml,
                   rules_yml, ENTITY_LIST, RULES_CONTENT, new_nlu_data,
                   responses_content, file_idx, msg_idx, intent_name,
                   response_name, after_text, steps_iter>>

IsEntriesFile(file) ==
    /\ ~(IGNORE_SYSTEM_ENTITIES /\ StartsWith(file.fname, S_sys))
    /\ EndsWith(file.fname, S_entries \o LANGUAGE_SETTING \o S_json)

RECURSIVE SynonymLines(_)
SynonymLines(synonyms) ==
    IF synonyms = <<>> THEN <<>>
    ELSE S_example \o synonyms[1] \o <<"\n">> \o SynonymLines(Tail(synonyms))

RECURSIVE EntryLines(_)
EntryLines(entries) ==
    IF entries = <<>> THEN <<>>
    ELSE SynonymLines(entries[1].synonyms) \o EntryLines(Tail(entries))

\* what generate_synonyms writes for the entity files
RECURSIVE SynonymBlocks(_)
SynonymBlocks(files) ==
    IF files = <<>> THEN <<>>
    ELSE S_synonym \o files[1].entries[1].value \o S_examples
             \o EntryLines(files[1].entries) \o <<"\n">>
             \o SynonymBlocks(Tail(files))

\* generate_synonyms: the loop over the entity files runs inside the open
\* synonyms.yml; when open() fails the error is reported and the loop, with
\* its ENTITY_LIST.append, never runs
GenerateSynonyms ==
    /\ pc = "synonyms"
    /\ LET files == SelectSeq(entities_dir, IsEntriesFile)
       IN  /\ synonyms_yml' =
                  Written(synonyms_yml, NluAnchor \o SynonymBlocks(files))
           /\ ENTITY_LIST' =
                  IF synonyms_yml.writable
                  THEN ENTITY_LIST
                           \o [k \in DOMAIN files |->
                                   files[k].entries[1].value]
                  ELSE ENTITY_LIST
    /\ pc' = "nlu"
    /\ UNCHANGED <<stdin, groups, intents_dir, entities_dir, nlu_yml,
                   domain_yml,
                   rules_yml, IGNORE_SYSTEM_ENTITIES, INTENT_LIST,
                   RULES_CONTENT, new_nlu_data, responses_content, file_idx,
                   msg_idx, intent_name, response_name, after_text, steps_iter>>

RECURSIVE ExampleLines(_)
ExampleLines(examples) ==
    IF examples = <<>> THEN <<>>
    ELSE S_example \o Concat(examples[1]) \o <<"\n">>
             \o ExampleLines(Tail(examples))

\* generate_nlu's loop body, for the next file of the agent's language
GenerateNluIntent ==
    /\ pc = "nlu"
    /\ NextFile(file_idx, NluFiles) # 0
    /\ LET file == intents_dir[NextFile(file_idx, NluFiles)]
           name == add_group_to_intent_name(
                       remove_substring(file.fname,
                           S_usersays \o LANGUAGE_SETTING \o S_json))
       IN  /\ intent_name' = name
           /\ INTENT_LIST' = Register(name)
           /\ new_nlu_data' =
                  (IF file_idx = 0 THEN NluAnchor ELSE new_nlu_data)
                      \o S_intent \o name \o S_examples
                      \o ExampleLines(file.examples) \o <<"\n">>
    /\ file_idx' = NextFile(file_idx, NluFiles)
    /\ UNCHANGED <<pc, stdin, groups, intents_dir, entities_dir, synonyms_yml,
                   nlu_yml,
                   domain_yml, rules_yml, IGNORE_SYSTEM_ENTITIES, ENTITY_LIST,
                   RULES_CONTENT, responses_content, msg_idx, response_name,
                   after_text, steps_iter>>

\* the document generate_nlu writes over the existing one
merge_nlu(nlu_data, new_data) ==
    SliceTo(nlu_data, Find(nlu_data, NluAnchor)) \o new_data

\* generate_nlu after its loop: nlu.yml is read, cut at the anchor and
\* written; a missing nlu.yml, or one that cannot be written, is reported
\* and nothing is written
GenerateNluWrite ==
    /\ pc = "nlu"
    /\ NextFile(file_idx, NluFiles) = 0
    /\ LET data == IF file_idx = 0 THEN NluAnchor ELSE new_nlu_data
       IN  /\ new_nlu_data' = data
           /\ nlu_yml' =
                  IF nlu_yml.exists
                  THEN Written(nlu_yml, merge_nlu(nlu_yml.data, data))
                  ELSE nlu_yml
    /\ pc' = "domain"
    /\ file_idx' = 0
    /\ UNCHANGED <<stdin, groups, intents_dir, entities_dir, synonyms_yml,
                   domain_yml,
                   rules_yml, IGNORE_SYSTEM_ENTITIES, ENTITY_LIST, INTENT_LIST,
                   RULES_CONTENT, responses_content, msg_idx, intent_name,
                   response_name, after_text, steps_iter>>

\* whether get_responses has a message of the open file left
MessageLeft ==
    /\ file_idx # 0
    /\ msg_idx < Len(intents_dir[file_idx].messages)

\* get_responses opens the next response file
GetResponsesFile ==
    /\ pc = "domain"
    /\ ~MessageLeft
    /\ NextFile(file_idx, ResponseFiles) # 0
    /\ LET file == intents_dir[NextFile(file_idx, ResponseFiles)]
           name == add_group_to_intent_name(
                       remove_substring(file.fname, S_json))
       IN  /\ intent_name' = name
           /\ response_name' = S_utter \o name
           /\ responses_content' =
                  (IF file_idx = 0 THEN S_responses ELSE responses_content)
                      \o <<" ", " ">> \o S_utter \o name \o <<":", "\n">>
    /\ file_idx' = NextFile(file_idx, ResponseFiles)
    /\ msg_idx' = 0
    /\ after_text' = FALSE
    /\ steps_iter' = 0
    /\ UNCHANGED <<pc, stdin, groups, intents_dir, entities_dir, synonyms_yml,
                   nlu_yml,
                   domain_yml, rules_yml, IGNORE_SYSTEM_ENTITIES, ENTITY_LIST,
                   INTENT_LIST, RULES_CONTENT, new_nlu_data>>

\* the loop body's locals and the globals as they are
Current ==
    Locals(responses_content, after_text, steps_iter, intent_name,
           response_name)

WriteImages(st, images) ==
    [st EXCEPT
        !.responses_content = images.responses_content,
        !.after_text = images.after_text]

\* the rich payload's images, after its buttons
ProcessImages(message, st) ==
    IF message.has_images
    THEN WriteImages(st, process_images(message, st.responses_content,
                                        st.after_text))
    ELSE st

\* a variant of process_message: the language of the message is not looked at
process_any_language(message) ==
    IF message.type = "0" /\ message.speech # <<>>
    THEN [Current EXCEPT
             !.responses_content = @ \o TextSteps(message.speech),
             !.after_text = TRUE]
    ELSE IF message.type = "4"
    THEN ProcessImages(message,
             IF message.has_buttons
             THEN process_buttons(message, responses_content, after_text,
                                  steps_iter, intent_name, response_name)
             ELSE Current)
    ELSE Current

\* the locals and globals after the loop body of get_responses for message
process_message(message) ==
    IF message.lang # LANGUAGE_SETTING THEN Current
    ELSE IF message.type = "0" /\ message.speech # <<>>
    THEN [Current EXCEPT
             !.responses_content = @ \o TextSteps(message.speech),
             !.after_text = TRUE]
    ELSE IF message.type = "4"
    THEN ProcessImages(message,
             IF message.has_buttons
             THEN process_buttons(message, responses_content, after_text,
                                  steps_iter, intent_name, response_name)
             ELSE Current)
    ELSE Current

\* the step of get_responses for message
StepTo(after) ==
    /\ responses_content' = after.responses_content
    /\ steps_iter' = after.steps_iter
    /\ after_text' = after.after_text
    /\ intent_name' = after.intent_name
    /\ response_name' = after.response_name
    /\ RULES_CONTENT' = after.RULES_CONTENT
    /\ INTENT_LIST' = after.INTENT_LIST
    /\ nlu_yml' = after.nlu_yml

\* get_responses' loop body for the next message of the open file
GetResponsesMessage ==
    /\ pc = "domain"
    /\ MessageLeft
    /\ StepTo(process_message(intents_dir[file_idx].messages[msg_idx + 1]))
    /\ msg_idx' = msg_idx + 1
    /\ UNCHANGED <<pc, stdin, groups, intents_dir, entities_dir, synonyms_yml,
                   domain_yml, rules_yml, IGNORE_SYSTEM_ENTITIES, ENTITY_LIST,
                   new_nlu_data, file_idx>>

\* '<header>' + '\n'.join('- ' + item for item in list) + '\n\n'
ListSection(header, list) ==
    header \o Join([k \in DOMAIN list |-> S_item \o list[k]], <<"\n">>)
           \o <<"\n", "\n">>

\* a variant of merge_domain: the content is appended, anchor or not
append_domain(filedata, content) ==
    filedata \o content

\* the document generate_domain writes over the existing one
merge_domain(filedata, content) ==
    LET start_index == Find(filedata, IntentsAnchor)
    IN  IF start_index = -1 THEN filedata \o content
        ELSE SliceTo(filedata, start_index) \o content

\* generate_domain after get_responses returned: the intents, the entities
\* and the responses replace the document from the anchor on; a missing
\* domain.yml starts as the version line
GenerateDomainWrite ==
    /\ pc = "domain"
    /\ ~MessageLeft
    /\ NextFile(file_idx, ResponseFiles) = 0
    /\ LET content == IF file_idx = 0 THEN S_responses ELSE responses_content
           filedata == IF domain_yml.exists THEN domain_yml.data ELSE S_version
       IN  /\ responses_content' = content
           /\ domain_yml' =
                  Written(domain_yml,
                      merge_domain(filedata,
                          ListSection(IntentsAnchor, INTENT_LIST)
                              \o ListSection(S_entities, ENTITY_LIST)
                              \o content))
    /\ pc' = "rules"
    /\ UNCHANGED <<stdin, groups, intents_dir, entities_dir, synonyms_yml,
                   nlu_yml,
                   rules_yml, IGNORE_SYSTEM_ENTITIES, ENTITY_LIST, INTENT_LIST,
                   RULES_CONTENT, new_nlu_data, file_idx, msg_idx, intent_name,
                   response_name, after_text, steps_iter>>

\* whether generate_rules finds a rule for the intent
rule_exists(intent) ==
    Contains(RULES_CONTENT, intent)

\* the default rules of the intents from position k of INTENT_LIST on
RECURSIVE DefaultRules(_)
DefaultRules(k) ==
    IF k > Len(INTENT_LIST) THEN <<>>
    ELSE (IF rule_exists(INTENT_LIST[k]) THEN <<>>
          ELSE create_new_rule(<<>>, S_utter \o INTENT_LIST[k], INTENT_LIST[k]))
             \o DefaultRules(k + 1)

\* a variant of new_rules: the default rules, then the rules of the responses
default_rules_first ==
    RulesAnchor \o DefaultRules(1) \o RULES_CONTENT

\* new_rules: the rules of the responses, then the default rules
new_rules ==
    RulesAnchor \o RULES_CONTENT \o DefaultRules(1)

\* the document generate_rules writes over the existing one
merge_rules(file, rules) ==
    IF ~file.exists THEN S_version \o rules
    ELSE LET start_index == Find(file.data, RulesAnchor)
         IN  IF start_index # -1 THEN SliceTo(file.data, start_index) \o rules
             ELSE S_version \o rules

GenerateRules ==
    /\ pc = "rules"
    /\ rules_yml' = Written(rules_yml, merge_rules(rules_yml, new_rules))
    /\ pc' = "done"
    /\ UNCHANGED <<stdin, groups, intents_dir, entities_dir, synonyms_yml,
                   nlu_yml,
                   domain_yml, IGNORE_SYSTEM_ENTITIES, ENTITY_LIST, INTENT_LIST,
                   RULES_CONTENT, new_nlu_data, responses_content, file_idx,
                   msg_idx, intent_name, response_name, after_text, steps_iter>>

\* the state main() starts in, for an export, the documents of the Rasa
\* project, the entity files and the user's answer
Start(export, entities, synonyms, nlu, domain, rules, ignore) ==
    /\ pc = "setup"
    /\ stdin = [ignore_sys |-> ignore]
    /\ groups = <<>>
    /\ intents_dir = export
    /\ entities_dir = entities
    /\ synonyms_yml = synonyms
    /\ nlu_yml = nlu
    /\ domain_yml = domain
    /\ rules_yml = rules
    /\ IGNORE_SYSTEM_ENTITIES = FALSE
    /\ ENTITY_LIST = <<>>
    /\ INTENT_LIST = <<>>
    /\ RULES_CONTENT = <<>>
    /\ new_nlu_data = <<>>
    /\ responses_content = <<>>
    /\ file_idx = 0
    /\ msg_idx = 0
    /\ intent_name = <<>>
    /\ response_name = <<>>
    /\ after_text = FALSE
    /\ steps_iter = 0

\* the export of the runs in which the existing documents vary
MergeExport ==
    Listing(<<Nm_gx, Nm_x>>, <<<<M_text_es, M_buttons>>, <<M_text>>>>)

\* the four documents main() generates
Targets ==
    {"synonyms", "nlu", "domain", "rules"}

\* the documents of a Rasa project that was migrated before, all of them
\* writable but the failing ones
Project(failing) ==
    LET File(target, anchor) ==
            IF target \in failing THEN ReadOnly(DefaultDoc(anchor))
            ELSE DefaultDoc(anchor)
    IN  [synonyms |-> File("synonyms", NluAnchor),
         nlu |-> File("nlu", NluAnchor),
         domain |-> File("domain", IntentsAnchor),
         rules |-> File("rules", RulesAnchor)]

Init ==
    \/ \E export \in NamedExports \cup NestedExports \cup MessageExports :
          Start(export, <<E_decl, E_city>>, NoDoc, DefaultDoc(NluAnchor),
                DefaultDoc(IntentsAnchor), DefaultDoc(RulesAnchor), TRUE)
    \/ \E nlu \in DocPool(NluAnchor), domain \in DocPool(IntentsAnchor),
          rules \in DocPool(RulesAnchor), entities \in EntityDirs,
          ignore \in BOOLEAN :
          Start(MergeExport, entities, NoDoc, nlu, domain, rules, ignore)
    \/ \E target \in Targets \cup {"none"}, entities \in EntityDirs,
          ignore \in BOOLEAN :
          LET docs == Project({target})
          IN  Start(MergeExport, entities, docs.synonyms, docs.nlu,
                    docs.domain, docs.rules, ignore)

Next ==
    \/ InitializeMigrationSetup
    \/ GenerateSynonyms
    \/ GenerateNluIntent
    \/ GenerateNluWrite
    \/ GetResponsesFile
    \/ GetResponsesMessage
    \/ GenerateDomainWrite
    \/ GenerateRules

Spec ==
    Init /\ [][Next]_vars

(***************************************************************************)
(* Properties.  The Grouping Analyzer is extract_groups, the Name Resolver *)
(* add_group_to_intent_name, IntentList INTENT_LIST.                       *)
(***************************************************************************)

SetOf(list) ==
    {list[k] : k \in DOMAIN list}

\* every raw identifier the runs resolve
RawNames ==
    NamePool \cup NestedPool

\* whether the filename holds the group separator
HasSeparator(filename) ==
    \E k \in DOMAIN filename : filename[k] = "-"

\* whether p is the text left of the first group separator of the filename
IsPrefixOf(p, filename) ==
    /\ Len(p) < Len(filename)
    /\ filename[Len(p) + 1] = "-"
    /\ SubSeq(filename, 1, Len(p)) = p
    /\ \A k \in DOMAIN p : p[k] # "-"

\* the training-phrase filenames (positions of the listing) with prefix p
Tallied(filenames, p) ==
    {k \in DOMAIN filenames :
        is_usersays(filenames[k]) /\ IsPrefixOf(p, filenames[k])}

\* the prefixes of the training-phrase filenames
Prefixes(filenames) ==
    UNION {{SubSeq(filenames[k], 1, n) : n \in 0..Len(filenames[k])} :
               k \in DOMAIN filenames}

\* the ungrouped: the training-phrase filenames without a separator and
\* those whose prefix has a tally under two
Ungrouped(filenames) ==
    {k \in DOMAIN filenames :
        /\ is_usersays(filenames[k])
        /\ \/ ~HasSeparator(filenames[k])
           \/ \E p \in Prefixes(filenames) :
                 /\ IsPrefixOf(p, filenames[k])
                 /\ Cardinality(Tallied(filenames, p)) < 2}

\* the set the Grouping Analyzer is specified to return
ExpectedGroups(filenames) ==
    LET recognized ==
            {p \in Prefixes(filenames) : Cardinality(Tallied(filenames, p)) >= 2}
        ungrouped == Cardinality(Ungrouped(filenames))
        all == recognized \cup (IF ungrouped >= 2 THEN {DEFAULT_GROUP} ELSE {})
    IN  IF Cardinality(all) = 1 /\ ungrouped = 0 THEN {} ELSE all

\* C7: for every list of filenames, the Grouping Analyzer returns the
\* prefixes with a tally of two or more among the training-phrase filenames,
\* plus the default-group marker iff two or more filenames are ungrouped
\* (no separator, or a prefix with a tally under two), and the empty set
\* when that leaves exactly one group and nothing ungrouped.
C7_GroupingAnalyzer ==
    [][pc = "setup" =>
          /\ SetOf(groups') = ExpectedGroups(Filenames(intents_dir))
          /\ Cardinality(SetOf(groups')) = Len(groups')]_vars

\* C7's case: the analyzer returned a prefix group and the default group
C7_Witness ==
    /\ pc = "synonyms"
    /\ SetOf(groups) = {<<"g">>, DEFAULT_GROUP}

\* n with the first occurrence of g- rewritten to g/
FirstRewritten(n, g) ==
    LET at == {k \in 0..(Len(n) - Len(g) - 1) :
                  SubSeq(n, k + 1, k + Len(g) + 1) = g \o <<"-">>}
    IN  IF at = {} THEN n
        ELSE LET k == CHOOSE a \in at : \A b \in at : a <= b
             IN  SubSeq(n, 1, k) \o g \o <<"/">>
                     \o SubSeq(n, k + Len(g) + 2, Len(n))

\* the recognized groups that are a literal prefix of n
GroupsMatching(n) ==
    {g \in SetOf(groups) : StartsWith(n, g)}

\* C8: a raw identifier with a recognized group as a literal prefix resolves
\* to itself with the first occurrence of g- rewritten to g/, g the longest
\* such group; whatever was registered since the groups were recognized.
C8_LongestGroupPrefix ==
    pc # "setup" =>
        \A n \in RawNames :
            GroupsMatching(n) # {} =>
                \E g \in GroupsMatching(n) :
                    /\ \A h \in GroupsMatching(n) : Len(h) <= Len(g)
                    /\ add_group_to_intent_name(n) = FirstRewritten(n, g)

\* C8's case: two recognized groups are a prefix of gh-x, and the resolver
\* rewrote the longer group's separator
C8_Witness ==
    /\ pc = "domain"
    /\ intent_name = <<"g","h","/","x">>
    /\ Cardinality(GroupsMatching(Nm_ghx)) = 2
    /\ add_group_to_intent_name(Nm_ghx) = <<"g","h","/","x">>

\* C9: at every point of a run after the groups were recognized, a raw
\* identifier of which no recognized group is a literal prefix resolves to
\* <default-group marker>/<raw> if the marker was recognized and to itself
\* otherwise.
C9_NoGroupPrefix ==
    pc # "setup" =>
        \A n \in RawNames :
            GroupsMatching(n) = {} =>
                add_group_to_intent_name(n) =
                    IF DEFAULT_GROUP \in SetOf(groups)
                    THEN DEFAULT_GROUP \o <<"/">> \o n
                    ELSE n

\* the registered identifiers that are a literal prefix of n
Matching(n) ==
    {p \in SetOf(INTENT_LIST) : StartsWith(n, p)}

\* whether the resolved identifier r holds a further match: the separator
\* after the longest registered prefix of r
FurtherMatch(r) ==
    \E p \in Matching(r) :
        /\ \A q \in Matching(r) : Len(q) <= Len(p)
        /\ Contains(r, p \o <<"-">>)

\* C10, as stated: resolving the resolved identifier again yields it.
C10_Idempotent ==
    \A n \in RawNames :
        add_group_to_intent_name(add_group_to_intent_name(n))
            = add_group_to_intent_name(n)

\* C10, amended: resolving the resolved identifier again yields it, if it
\* holds no further match.
C10_IdempotentWithoutFurtherMatch ==
    \A n \in RawNames :
        ~FurtherMatch(add_group_to_intent_name(n)) =>
            add_group_to_intent_name(add_group_to_intent_name(n))
                = add_group_to_intent_name(n)

\* C10's case: with the group g and the default group recognized, g-x and x
\* are namespaced by the resolver, and the results resolve to themselves
C10_Witness ==
    /\ SetOf(groups) = {<<"g">>, DEFAULT_GROUP}
    /\ add_group_to_intent_name(Nm_gx) = <<"g","/","x">>
    /\ add_group_to_intent_name(Nm_x) = DEFAULT_GROUP \o <<"/","x">>
    /\ ~FurtherMatch(<<"g","/","x">>)
    /\ add_group_to_intent_name(<<"g","/","x">>) = <<"g","/","x">>
    /\ add_group_to_intent_name(DEFAULT_GROUP \o <<"/","x">>)
           = DEFAULT_GROUP \o <<"/","x">>

\* whether the first occurrence of anchor in text is at position k (0-based)
IsFirstAt(text, anchor, k) ==
    /\ k + Len(anchor) <= Len(text)
    /\ SubSeq(text, k + 1, k + Len(anchor)) = anchor
    /\ \A j \in 0..(k - 1) : SubSeq(text, j + 1, j + Len(anchor)) # anchor

HasAnchor(file, anchor) ==
    /\ file.exists
    /\ \E k \in 0..Len(file.data) : IsFirstAt(file.data, anchor, k)

\* whether merged is the text of existing before the first anchor, then
\* the section
IsCutAtAnchor(existing, merged, anchor, section) ==
    \A k \in 0..Len(existing) :
        IsFirstAt(existing, anchor, k) =>
            merged = SubSeq(existing, 1, k) \o section

\* the steps that merge the corpus, the domain and the rules document: the
\* generation reaches its write and the document can be written
MergesNlu ==
    pc = "nlu" /\ pc' = "domain" /\ nlu_yml.writable

MergesDomain ==
    pc = "domain" /\ pc' = "rules" /\ domain_yml.writable

MergesRules ==
    pc = "rules" /\ pc' = "done" /\ rules_yml.writable

\* the section generate_domain renders
DomainSection ==
    ListSection(IntentsAnchor, INTENT_LIST)
        \o ListSection(S_entities, ENTITY_LIST) \o responses_content'

\* C5: when the existing corpus, domain or rules document holds the anchor,
\* the merged document is the existing text before the first occurrence of
\* the anchor, unchanged, followed by the freshly rendered section and
\* nothing else.
C5_MergeKeepsTextBeforeAnchor ==
    [][/\ MergesNlu /\ HasAnchor(nlu_yml, NluAnchor) =>
              IsCutAtAnchor(nlu_yml.data, nlu_yml'.data, NluAnchor,
                            new_nlu_data')
       /\ MergesDomain /\ HasAnchor(domain_yml, IntentsAnchor) =>
              IsCutAtAnchor(domain_yml.data, domain_yml'.data, IntentsAnchor,
                            DomainSection)
       /\ MergesRules /\ HasAnchor(rules_yml, RulesAnchor) =>
              IsCutAtAnchor(rules_yml.data, rules_yml'.data, RulesAnchor,
                            new_rules)]_vars

\* the text before the anchor of the document with a cut anchor before it
CutAnchor(anchor) ==
    <<"#">> \o SubSeq(anchor, 1, Len(anchor) - 1)

\* C5's case: the three documents held a cut anchor before the anchor and
\* were merged; each starts with its text before the anchor, then the section
C5_Witness ==
    /\ pc = "done"
    /\ StartsWith(nlu_yml.data, CutAnchor(NluAnchor) \o NluAnchor \o S_intent)
    /\ StartsWith(domain_yml.data,
                  CutAnchor(IntentsAnchor) \o IntentsAnchor \o S_item)
    /\ StartsWith(rules_yml.data, CutAnchor(RulesAnchor) \o RulesAnchor \o S_rule)

\* C6: when the existing corpus, domain or rules document does not hold the
\* anchor, the merged document is the whole existing text, no character
\* removed, followed by the new section.
C6_MergeAppendsWithoutAnchor ==
    [][/\ MergesNlu /\ nlu_yml.exists /\ ~HasAnchor(nlu_yml, NluAnchor) =>
              nlu_yml'.data = nlu_yml.data \o new_nlu_data'
       /\ MergesDomain /\ domain_yml.exists
              /\ ~HasAnchor(domain_yml, IntentsAnchor) =>
              domain_yml'.data = domain_yml.data \o DomainSection
       /\ MergesRules /\ rules_yml.exists /\ ~HasAnchor(rules_yml, RulesAnchor) =>
              rules_yml'.data = rules_yml.data \o new_rules]_vars

(***************************************************************************)
(* The rules section and the responses section, read back as the blocks    *)
(* they hold.                                                              *)
(***************************************************************************)

\* the lines of text, without their newlines
RECURSIVE Lines(_)
Lines(text) ==
    IF text = <<>> THEN <<>>
    ELSE LET ends == {k \in DOMAIN text : text[k] = "\n"}
         IN  IF ends = {} THEN <<text>>
             ELSE LET k == CHOOSE a \in ends : \A b \in ends : a <= b
                  IN  <<SubSeq(text, 1, k - 1)>>
                          \o Lines(SubSeq(text, k + 1, Len(text)))

IsRuleLine(line) ==
    StartsWith(line, <<"-"," ","r","u","l","e",":"," ">>)

IsIntentStep(line) ==
    StartsWith(line, S_stepintent)

IsActionStep(line) ==
    StartsWith(line, S_stepaction)

\* the RuleBlock of the lines after a rule line, up to the next rule line:
\* its trigger is its intent step, its actions are its action steps
BlockOfLines(steps) ==
    LET intents == SelectSeq(steps, IsIntentStep)
        actions == SelectSeq(steps, IsActionStep)
    IN  [trigger |->
             IF intents = <<>> THEN <<>>
             ELSE SubSeq(intents[1], Len(S_stepintent) + 1, Len(intents[1])),
         actions |->
             [k \in DOMAIN actions |->
                 SubSeq(actions[k], Len(S_stepaction) + 1, Len(actions[k]))]]

\* the RuleBlocks of lines, in order: one per rule line
BlocksOfLines(lines) ==
    LET opens == {k \in DOMAIN lines : IsRuleLine(lines[k])}
        Nth(i) == CHOOSE k \in opens :
                      Cardinality({j \in opens : j <= k}) = i
        EndOf(k) == CHOOSE e \in k..Len(lines) :
                        /\ \A j \in opens : j <= k \/ j > e
                        /\ e = Len(lines) \/ e + 1 \in opens
    IN  [i \in 1..Cardinality(opens) |->
            BlockOfLines(SubSeq(lines, Nth(i) + 1, EndOf(Nth(i))))]

\* the RuleBlocks a rules text holds, in order (the lines are split once)
RuleBlocks(text) ==
    CHOOSE blocks \in {BlocksOfLines(lines) : lines \in {Lines(text)}} : TRUE

\* the RuleBlocks of the rules section of rules.yml
FinalRuleBlocks ==
    RuleBlocks(SubSeq(rules_yml.data,
                      Find(rules_yml.data, RulesAnchor) + 1,
                      Len(rules_yml.data)))

\* a complete run: generate_rules returned after writing rules.yml
RulesWritten ==
    pc = "done" /\ rules_yml.writable

RuleBlock(trigger, actions) ==
    [trigger |-> trigger, actions |-> actions]

\* whether the line is the key of a response block: '  <name>:'
IsBlockKey(line) ==
    /\ Len(line) > 3
    /\ line[1] = " " /\ line[2] = " "
    /\ line[3] \notin {" ", "-"}
    /\ line[Len(line)] = ":"

\* the names of the lines
NamesOfKeys(keys) ==
    [k \in DOMAIN keys |-> SubSeq(keys[k], 3, Len(keys[k]) - 1)]

\* the names of the response blocks a responses text holds, in order (the
\* lines are split once)
BlockNames(text) ==
    CHOOSE names \in {NamesOfKeys(keys) :
                         keys \in {SelectSeq(Lines(text), IsBlockKey)}} : TRUE

\* the key line of the response block name
BlockKey(name) ==
    <<" ", " ">> \o name \o <<":", "\n">>

IsText(message) ==
    message.type = "0" /\ message.speech # <<>>

\* a Buttons payload: a rich payload with buttons and no images
IsButtons(message) ==
    message.type = "4" /\ message.has_buttons /\ ~message.has_images

\* the payloads of the agent's language among the first n messages
MatchingPayloads(messages, n) ==
    SelectSeq(SubSeq(messages, 1, n),
              LAMBDA m : m.lang = LANGUAGE_SETTING)

\* get_responses is about to normalize a message of the open file
NormalizesMessage ==
    pc = "domain" /\ MessageLeft

\* the message it is about to normalize
ThisMessage ==
    intents_dir[file_idx].messages[msg_idx + 1]

\* the intent's payloads of the agent's language, this message included
Seen ==
    MatchingPayloads(intents_dir[file_idx].messages, msg_idx + 1)

\* whether this message is a payload of the agent's language, the n-th
IsPayload(n) ==
    ThisMessage.lang = LANGUAGE_SETTING /\ Len(Seen) = n

\* whether the payloads are a Text payload, then a Buttons payload
IsTextThenButtons(payloads) ==
    /\ Len(payloads) = 2
    /\ IsText(payloads[1])
    /\ IsButtons(payloads[2])

\* whether the payloads are a Buttons payload, then Text payloads only
IsButtonsThenTexts(payloads) ==
    /\ Len(payloads) >= 1
    /\ IsButtons(payloads[1])
    /\ \A k \in 2..Len(payloads) : IsText(payloads[k])

\* the step that normalizes the Buttons payload of [Text, Buttons]: the
\* markup is appended onto the last text step, in place of its end; no
\* block is created and no RuleBlock is opened
MergesButtons ==
    NormalizesMessage /\ IsPayload(2) /\ IsTextThenButtons(Seen) =>
        /\ EndsWith(responses_content, S_endtext)
        /\ responses_content' =
               SubSeq(responses_content, 1, Len(responses_content) - 2)
                   \o ButtonMarkup(ThisMessage.buttons) \o S_endtext
        /\ BlockNames(responses_content') = BlockNames(responses_content)
        /\ UNCHANGED <<RULES_CONTENT, INTENT_LIST, intent_name, response_name,
                       steps_iter>>

\* the step that normalizes the Text payload a [Text, Buttons] starts with:
\* no RuleBlock is opened
EmitsFirstText ==
    NormalizesMessage /\ IsPayload(1) /\ IsText(ThisMessage) =>
        UNCHANGED <<RULES_CONTENT, steps_iter>>

\* the response files whose payloads of the agent's language are
\* [Text, Buttons]
TextThenButtonsFiles ==
    {k \in DOMAIN intents_dir :
        /\ IsResponseFile(intents_dir[k])
        /\ IsTextThenButtons(
               MatchingPayloads(intents_dir[k].messages,
                                Len(intents_dir[k].messages)))}

\* the identifier of the intent of the response file at position k
IntentOf(k) ==
    add_group_to_intent_name(remove_substring(intents_dir[k].fname, S_json))

\* whether the rules hold exactly one RuleBlock with the trigger id, and it
\* is the single-action RuleBlock of the base response identifier
HasOneDefaultRule(rules, id) ==
    /\ Cardinality({k \in DOMAIN rules : rules[k].trigger = id}) = 1
    /\ \E k \in DOMAIN rules : rules[k] = RuleBlock(id, <<S_utter \o id>>)

LastOf(list, n) ==
    SubSeq(list, Len(list) - n + 1, Len(list))

\* C2: for an intent whose payloads of the agent's language start with a
\* Buttons payload, alone or followed by Text payloads only, normalization
\* creates exactly one sub-block, <response_id>_1, which holds the button
\* markup, and emits exactly one RuleBlock for the intent, with the actions
\* [<response_id>, <response_id>_1]: the Buttons payload adds the one
\* sub-block and the one RuleBlock, the Text payloads after it add none.
C2_ButtonsFirst ==
    [][NormalizesMessage /\ IsButtonsThenTexts(Seen) =>
          \E added \in {IF IsPayload(1) THEN 1 ELSE 0},
             rid \in {response_name'},
             names \in {BlockNames(responses_content')},
             rules \in {RuleBlocks(RULES_CONTENT')} :
              /\ rid = S_utter \o intent_name'
              /\ LastOf(names, 2) = <<rid, rid \o <<"_", "1">>>>
              /\ Len(names) = Len(BlockNames(responses_content)) + added
              /\ Contains(responses_content',
                          BlockKey(rid \o <<"_", "1">>) \o S_text
                              \o ButtonMarkup(Seen[1].buttons) \o S_endtext)
              /\ LastOf(rules, 1)
                     = <<RuleBlock(intent_name',
                                   <<rid, rid \o <<"_", "1">>>>)>>
              /\ Len(rules) = Len(RuleBlocks(RULES_CONTENT)) + added]_vars

\* C2's case: g-x of the group g, [Buttons, Text], is normalized: x has the
\* RuleBlock of utter_x and utter_x_1
C2_Witness ==
    /\ pc = "domain"
    /\ file_idx # 0
    /\ intents_dir[file_idx].messages = <<M_buttons, M_text>>
    /\ msg_idx = 2
    /\ InList(groups, <<"g">>)
    /\ intent_name = Nm_x
    /\ steps_iter = 1
    /\ LastOf(RuleBlocks(RULES_CONTENT), 1)
           = <<RuleBlock(Nm_x, <<S_utter \o Nm_x,
                                  S_utter \o Nm_x \o <<"_", "1">>>>)>>

\* C3: after a complete run, no two RuleBlocks of the rules section have
\* the same trigger.
C3_OneRuleBlockPerTrigger ==
    RulesWritten =>
        \A i, j \in DOMAIN FinalRuleBlocks :
            FinalRuleBlocks[i].trigger = FinalRuleBlocks[j].trigger => i = j

\* C4: after a complete run, every entry of IntentList that is not the
\* trigger of a RuleBlock normalization produced has, in the rules section,
\* the single-action RuleBlock that maps it to utter_<entry>.
C4_DefaultRuleForEveryEntry ==
    RulesWritten =>
        \A k \in DOMAIN INTENT_LIST :
            (\A b \in DOMAIN RuleBlocks(RULES_CONTENT) :
                 RuleBlocks(RULES_CONTENT)[b].trigger # INTENT_LIST[k])
                => \E r \in DOMAIN FinalRuleBlocks :
                       FinalRuleBlocks[r]
                           = RuleBlock(INTENT_LIST[k],
                                       <<S_utter \o INTENT_LIST[k]>>)


(***************************************************************************)
(* A document that cannot be written.                                      *)
(***************************************************************************)

\* the entity names generate_synonyms lists when synonyms.yml can be written
EntityNames ==
    LET files == SelectSeq(entities_dir, IsEntriesFile)
    IN  [k \in DOMAIN files |-> files[k].entries[1].value]

\* the last step of the generation of each document
EndsSynonyms ==
    pc = "synonyms"

EndsNlu ==
    pc = "nlu" /\ NextFile(file_idx, NluFiles) = 0

EndsDomain ==
    pc = "domain" /\ ~MessageLeft /\ NextFile(file_idx, ResponseFiles) = 0

EndsRules ==
    pc = "rules"

\* C11: when one of synonyms.yml, nlu.yml, domain.yml and rules.yml cannot be
\* written, the run goes on to the next generation, and each of the other
\* three documents is written with the content it has when every document
\* can be written: the synonyms of the entity files, the corpus of the
\* intents, the domain section of IntentList, of the names of the entities
\* and of the responses, and the rules section.
C11_FailureLeavesOthersAlone ==
    [][/\ EndsSynonyms => pc' = "nlu"
       /\ EndsNlu => pc' = "domain"
       /\ EndsDomain => pc' = "rules"
       /\ EndsRules => pc' = "done"
       /\ EndsSynonyms /\ synonyms_yml.writable =>
              synonyms_yml'.data
                  = NluAnchor
                      \o SynonymBlocks(SelectSeq(entities_dir, IsEntriesFile))
       /\ MergesNlu /\ nlu_yml.exists =>
              EndsWith(nlu_yml'.data, new_nlu_data')
       /\ MergesDomain =>
              EndsWith(domain_yml'.data,
                       ListSection(IntentsAnchor, INTENT_LIST)
                           \o ListSection(S_entities, EntityNames)
                           \o responses_content')
       /\ MergesRules => EndsWith(rules_yml'.data, new_rules)]_vars


(***************************************************************************)
(* The order of the RuleBlocks.                                            *)
(***************************************************************************)

\* whether after is before with one RuleBlock of the trigger more at its
\* end, or before with its last RuleBlock, of the trigger, changed
GrowsAtEnd(before, after, trigger) ==
    \/ /\ Len(after) = Len(before) + 1
       /\ SubSeq(after, 1, Len(before)) = before
       /\ after[Len(after)].trigger = trigger
    \/ /\ Len(after) = Len(before)
       /\ before # <<>>
       /\ SubSeq(after, 1, Len(before) - 1) = SubSeq(before, 1, Len(before) - 1)
       /\ after[Len(after)].trigger = trigger
       /\ before[Len(before)].trigger = trigger

\* whether the RuleBlocks are single-action RuleBlocks of entries of
\* IntentList, in the order of IntentList
InIntentListOrder(blocks) ==
    /\ \A a \in DOMAIN blocks :
           /\ InList(INTENT_LIST, blocks[a].trigger)
           /\ blocks[a].actions = <<S_utter \o blocks[a].trigger>>
    /\ \A a, b \in DOMAIN blocks :
           a < b =>
               \E i, j \in DOMAIN INTENT_LIST :
                   /\ i < j
                   /\ INTENT_LIST[i] = blocks[a].trigger
                   /\ INTENT_LIST[j] = blocks[b].trigger

\* C12: normalization puts a RuleBlock of the intent it is processing at
\* the end of the RuleBlocks it has produced and leaves the earlier ones in
\* place, so they are in the order their intents were processed; the rules
\* section of a complete run is these RuleBlocks, in that order, followed by
\* the single-action RuleBlocks, which are in IntentList order.
C12_NormalizationRulesFirst ==
    /\ [][RULES_CONTENT' # RULES_CONTENT =>
              /\ NormalizesMessage
              /\ \E before \in {RuleBlocks(RULES_CONTENT)},
                    after \in {RuleBlocks(RULES_CONTENT')} :
                     GrowsAtEnd(before, after, intent_name')]_vars
    /\ [](RulesWritten =>
              \E produced \in {RuleBlocks(RULES_CONTENT)},
                 final \in {FinalRuleBlocks} :
                  /\ Len(produced) <= Len(final)
                  /\ SubSeq(final, 1, Len(produced)) = produced
                  /\ \A k \in DOMAIN produced : Len(produced[k].actions) > 1
                  /\ InIntentListOrder(
                         SubSeq(final, Len(produced) + 1, Len(final))))

\* C12's case: a run ends with a RuleBlock normalization produced and, after
\* it, single-action RuleBlocks of two entries of IntentList
C12_Witness ==
    /\ RulesWritten
    /\ Len(RuleBlocks(RULES_CONTENT)) >= 1
    /\ Len(FinalRuleBlocks) >= Len(RuleBlocks(RULES_CONTENT)) + 2
    /\ Len(FinalRuleBlocks[1].actions) = 2
    /\ Len(FinalRuleBlocks[Len(FinalRuleBlocks)].actions) = 1


(***************************************************************************)
(* The turns of an intent.                                                 *)
(***************************************************************************)

HasImages(message) ==
    message.type = "4" /\ message.has_images

HasButtons(message) ==
    message.type = "4" /\ message.has_buttons

\* whether the k-th of the payloads holds buttons and arrives while
\* sawPrecedingText is false: no payload before it sets the flag but is
\* followed, before the k-th, by a payload with images
StartsTurn(payloads, k) ==
    /\ HasButtons(payloads[k])
    /\ \A j \in 1..(k - 1) :
           IsText(payloads[j]) \/ HasButtons(payloads[j]) =>
               \E i \in j..(k - 1) : HasImages(payloads[i])

\* the number of payloads that start a turn
Turns(payloads) ==
    Cardinality({k \in DOMAIN payloads : StartsTurn(payloads, k)})

\* <response_id>_1 ... <response_id>_k
SubBlocks(rid, k) ==
    [n \in 1..k |-> rid \o <<"_">> \o Digits(n)]

\* C13: after normalizing each payload of an intent, with k the number of
\* its payloads so far that hold buttons and arrived while sawPrecedingText
\* was false: stepCounter is k; the blocks of the intent are its base block
\* and the sub-blocks <response_id>_1 ... <response_id>_k, in that order, the
\* payload adding as many blocks as it adds to k; if k >= 1 the last
\* RuleBlock is the intent's, with the actions <response_id>,
\* <response_id>_1, ..., <response_id>_k, and the RuleBlocks before it are
\* as they were; if k = 0 the rules are as they were.  Opening the intent's
\* file puts stepCounter at 0 and leaves the rules alone.
C13_OneSubBlockPerTurn ==
    [][/\ NormalizesMessage =>
              \E k \in {Turns(Seen)},
                 rid \in {response_name'},
                 names \in {BlockNames(responses_content')},
                 rules \in {RuleBlocks(RULES_CONTENT')},
                 before \in {RuleBlocks(RULES_CONTENT)} :
                  /\ steps_iter' = k
                  /\ LastOf(names, k + 1) = <<rid>> \o SubBlocks(rid, k)
                  /\ Len(names)
                         = Len(BlockNames(responses_content))
                               + (k - steps_iter)
                  /\ k >= 1 =>
                         /\ rules # <<>>
                         /\ rules[Len(rules)]
                                = RuleBlock(intent_name',
                                            <<rid>> \o SubBlocks(rid, k))
                         /\ SubSeq(rules, 1, Len(rules) - 1)
                                = IF steps_iter = 0 THEN before
                                  ELSE SubSeq(before, 1, Len(before) - 1)
                  /\ k = 0 => RULES_CONTENT' = RULES_CONTENT
       /\ pc = "domain" /\ file_idx' # file_idx =>
              steps_iter' = 0 /\ RULES_CONTENT' = RULES_CONTENT]_vars

\* C13's case: an intent whose payloads of the agent's language are one with
\* buttons and images, then one with buttons, is normalized: two turns, two
\* sub-blocks, one RuleBlock of three actions
C13_Witness ==
    /\ pc = "domain"
    /\ file_idx # 0
    /\ msg_idx = 3
    /\ intents_dir[file_idx].messages = <<M_text_es, M_both, M_buttons>>
    /\ steps_iter = 2
    /\ LastOf(BlockNames(responses_content), 3)
           = <<response_name>> \o SubBlocks(response_name, 2)
    /\ LastOf(RuleBlocks(RULES_CONTENT), 1)
           = <<RuleBlock(intent_name,
                         <<response_name>> \o SubBlocks(response_name, 2))>>


(***************************************************************************)
(* Payloads of another language.                                           *)
(***************************************************************************)

\* C14: a payload whose language is not the agent's is skipped: the step of
\* get_responses for it leaves sawPrecedingText, stepCounter, the response
\* blocks, the RuleBlocks, IntentList, the identifiers of the intent and the
\* corpus as they were, so the payloads of the agent's language are
\* normalized as if the others were not there.
C14_OtherLanguageSkipped ==
    [][NormalizesMessage /\ ThisMessage.lang # LANGUAGE_SETTING =>
          UNCHANGED <<after_text, steps_iter, responses_content,
                      RULES_CONTENT, INTENT_LIST, intent_name, response_name,
                      nlu_yml>>]_vars

\* C14's case: a Text payload of another language, between a Buttons and a
\* Text payload, was skipped: the turn and the blocks are those of the
\* Buttons payload
C14_Witness ==
    /\ pc = "domain"
    /\ file_idx # 0
    /\ msg_idx = 2
    /\ intents_dir[file_idx].messages = <<M_buttons, M_text_es, M_text>>
    /\ after_text
    /\ steps_iter = 1
    /\ EndsWith(responses_content,
                BlockKey(response_name \o <<"_", "1">>) \o S_text
                    \o ButtonMarkup(M_buttons.buttons) \o S_endtext)


(***************************************************************************)
(* IntentList.                                                             *)
(***************************************************************************)

\* the step that renames the intent and its response: the first turn of
\* the intent
Renames ==
    /\ NormalizesMessage
    /\ ThisMessage.lang = LANGUAGE_SETTING
    /\ HasButtons(ThisMessage)
    /\ ~after_text
    /\ steps_iter = 0

\* the steps that register the identifier they leave in intent_name:
\* generate_nlu's loop body, and the renaming
Registers ==
    \/ pc = "nlu" /\ NextFile(file_idx, NluFiles) # 0
    \/ Renames

\* whether an entry of the list before position k is a prefix of the k-th
HasEarlierPrefix(list, k) ==
    \E j \in 1..(k - 1) : StartsWith(list[k], list[j])

\* from the seed on, entries are never removed or reordered, and an
\* identifier is appended iff no registered entry is a prefix of it
AppendsUnlessPrefixed ==
    pc # "setup" =>
        /\ SubSeq(INTENT_LIST', 1, Len(INTENT_LIST)) = INTENT_LIST
        /\ IF Registers
           THEN INTENT_LIST' =
                    IF \E k \in DOMAIN INTENT_LIST :
                           StartsWith(intent_name', INTENT_LIST[k])
                    THEN INTENT_LIST
                    ELSE Append(INTENT_LIST, intent_name')
           ELSE INTENT_LIST' = INTENT_LIST

\* C15, as stated: from the seed on IntentList is append-only, an identifier
\* is appended iff no registered entry is a prefix of it, and no entry of
\* IntentList has an earlier entry as a prefix.
C15_AppendOnlyPrefixFree ==
    /\ [][AppendsUnlessPrefixed]_vars
    /\ [](pc # "setup" =>
              \A k \in DOMAIN INTENT_LIST : ~HasEarlierPrefix(INTENT_LIST, k))

\* C15, amended: from the seed on IntentList is append-only, an identifier
\* is appended iff no registered entry is a prefix of it, and no entry
\* appended after the seed has an earlier entry as a prefix; the seed is the
\* list of the recognized groups as the Grouping Analyzer returned it.
C15_AppendOnlyAfterSeed ==
    /\ [][AppendsUnlessPrefixed]_vars
    /\ [](pc # "setup" =>
              /\ SubSeq(INTENT_LIST, 1, Len(groups)) = groups
              /\ \A k \in (Len(groups) + 1)..Len(INTENT_LIST) :
                     ~HasEarlierPrefix(INTENT_LIST, k))

\* C15's case: the seed is the group g; y was appended by generate_nlu and x
\* by the renaming of g/x, and g/x and g/x-y, which g is a prefix of, were not
C15_Witness ==
    /\ pc = "done"
    /\ groups = <<<<"g">>>>
    /\ INTENT_LIST = <<<<"g">>, Nm_y, Nm_x>>
    /\ Len(intents_dir) = 6


\* C16: the short identifier a renaming produces is an entry of IntentList
\* after the renaming, and after a complete run the trigger of every
\* RuleBlock of the rules section is an entry of IntentList, the intents
\* list of the domain document.
C16_TriggersAreIntents ==
    /\ [][Renames => InList(INTENT_LIST', intent_name')]_vars
    /\ [](RulesWritten =>
              \E final \in {FinalRuleBlocks} :
                  \A k \in DOMAIN final :
                      InList(INTENT_LIST, final[k].trigger))


\* whether the lines after are the lines before, in place, but for the
\* lines before that are own, and lines added at the end
OnlyOwnLinesChange(before, after, own) ==
    /\ Len(after) >= Len(before)
    /\ \A k \in DOMAIN before : before[k] # own => after[k] = before[k]

\* C17: the renaming of an intent A and of its response changes nothing of
\* another intent: in the corpus document every line but the intent line of
\* A, and in the responses every line but the key of A's block, is after the
\* renaming as it was before it, the identifiers of the other intents and
\* the keys and steps of their blocks among them.
C17_RenamingTouchesOneIntent ==
    [][Renames =>
          /\ \E before \in {Lines(nlu_yml.data)},
                after \in {Lines(nlu_yml'.data)} :
                 /\ Len(after) = Len(before)
                 /\ OnlyOwnLinesChange(before, after, S_intent \o intent_name)
          /\ \E before \in {Lines(responses_content)},
                after \in {Lines(responses_content')} :
                 OnlyOwnLinesChange(before, after,
                                    <<" ", " ">> \o response_name \o <<":">>)]_vars

=============================================================================
